---- MODULE Spec2Model ----
(***************************************************************************)
(* X11 screen capture session of Weylus (src/screen_capture/linux.rs):     *)
(* ScreenCaptureX11::new / capture / size / fill_yuv and its Drop, run by  *)
(* several threads that share the fltk application lock and the native     *)
(* capture library (start_capture, capture_sceen, stop_capture).           *)
(*                                                                         *)
(* A ScreenCaptureX11 holds a raw pointer, so it is neither Send nor Sync: *)
(* every session is created, used and dropped by one thread.  A thread is  *)
(* modelled with at most one session at a time.                            *)
(***************************************************************************)
EXTENDS Integers, FiniteSets, Sequences, TLC

\* ------------------------------------------------------------ bounds
NThreads == 2        \* threads that create sessions
MaxHandles == 2      \* successful start_capture calls over the whole run
MaxDim == 5          \* largest frame width and height of the conversion runs
NPatterns == 12      \* native pixel buffers (contents) the conversion is run on

\* ------------------------------------------------------------ constants
BytesPerPixel == 4   \* packed b, g, r, a

Threads == 1..NThreads
Handles == 1..MaxHandles

VARIABLES
    lock,      \* owner of the fltk application lock: 0 when free, else a thread
    pc,        \* [Threads -> position of the thread in the method it runs]
    session,   \* [Threads -> the thread's ScreenCaptureX11 (live = it exists)]
    local,     \* [Threads -> locals of the running method: err, handle, ...]
    out,       \* [Threads -> what the last finished method returned, the
               \*  number of warn! events it emitted, the planes it filled]
    native,    \* [Handles -> the native library's record of that handle]
    hist,      \* [Threads -> the running method: its name, its lock and
               \*  native-call counts, the frame it started from]
    fill       \* [Threads -> fill_yuv's arguments, loop position and planes]

vars == <<lock, pc, session, local, out, native, hist, fill>>

\* ------------------------------------------------------------ CImage
\* A CImage: data is a pointer into native memory (0 is the null pointer).
\* Mutant: CImage::new leaves non-zero dimensions.
CImageNonZero == [data |-> 0, width |-> 1, height |-> 1]

CImageNew == [data |-> 0, width |-> 0, height |-> 0]

Frame(p, w, h) == [data |-> p, width |-> w, height |-> h]

\* c_uint values as four base-256 limbs, least significant first (the
\* model checker's integers are narrower than 2^32).
ToLimbs(n) == <<n % 256, (n \div 256) % 256, (n \div 65536) % 256,
                (n \div 16777216) % 256>>

\* Wrapping c_uint multiplication: the low four limbs of the product.
MulLimbs(A, B) ==
    LET c1 == A[1] * B[1]
        c2 == A[1] * B[2] + A[2] * B[1] + (c1 \div 256)
        c3 == A[1] * B[3] + A[2] * B[2] + A[3] * B[1] + (c2 \div 256)
        c4 == A[1] * B[4] + A[2] * B[3] + A[3] * B[2] + A[4] * B[1]
                + (c3 \div 256)
    IN  <<c1 % 256, c2 % 256, c3 % 256, c4 % 256>>

\* The number a limb vector stands for (representable below 2^31).
LimbsValue(L) == L[1] + 256 * L[2] + 65536 * L[3] + 16777216 * L[4]

\* CImage::size: width * height * 4 is computed in c_uint, then widened.
CImageSizeLimbs(img) ==
    MulLimbs(MulLimbs(ToLimbs(img.width), ToLimbs(img.height)),
             ToLimbs(BytesPerPixel))

CImageSize(img) == LimbsValue(CImageSizeLimbs(img))

\* The exact product of two c_uint values: eight limbs.
MulWide(A, B) ==
    LET c1 == A[1] * B[1]
        c2 == A[1] * B[2] + A[2] * B[1] + (c1 \div 256)
        c3 == A[1] * B[3] + A[2] * B[2] + A[3] * B[1] + (c2 \div 256)
        c4 == A[1] * B[4] + A[2] * B[3] + A[3] * B[2] + A[4] * B[1]
                + (c3 \div 256)
        c5 == A[2] * B[4] + A[3] * B[3] + A[4] * B[2] + (c4 \div 256)
        c6 == A[3] * B[4] + A[4] * B[3] + (c5 \div 256)
        c7 == A[4] * B[4] + (c6 \div 256)
    IN  <<c1 % 256, c2 % 256, c3 % 256, c4 % 256, c5 % 256, c6 % 256,
          c7 % 256, c7 \div 256>>

\* The carry into limb k of m times the limb vector L.
RECURSIVE CarryInto(_, _, _)
CarryInto(L, m, k) ==
    IF k = 1 THEN 0 ELSE (m * L[k - 1] + CarryInto(L, m, k - 1)) \div 256

\* The exact product of a limb vector and a small factor: one limb more.
ScaleLimbs(L, m) ==
    [k \in 1..(Len(L) + 1) |->
        IF k <= Len(L) THEN (m * L[k] + CarryInto(L, m, k)) % 256
                       ELSE CarryInto(L, m, k)]

\* Whether width * height * 4 leaves the range of c_uint at either of its
\* two multiplications: a build with overflow checks panics there, a build
\* without them goes on with the low 32 bits.
CImageSizeOverflows(img) ==
    LET P == MulWide(ToLimbs(img.width), ToLimbs(img.height))
    IN  \/ <<P[5], P[6], P[7], P[8]>> # <<0, 0, 0, 0>>
        \/ ScaleLimbs(<<P[1], P[2], P[3], P[4]>>, BytesPerPixel)[5] # 0

\* ScreenCaptureX11::size
SizeOf(s) == [kind |-> "size", w |-> s.img.width, h |-> s.img.height,
              warned |-> 0, planes |-> <<>>]

NoSession == [live |-> FALSE, handle |-> 0, img |-> CImageNew,
              capture_cursor |-> FALSE]
NoLocal == [err |-> FALSE, handle |-> 0, capture_cursor |-> FALSE]
NoOut == [kind |-> "none", w |-> 0, h |-> 0, warned |-> 0, planes |-> <<>>]
Out(k, n) == [NoOut EXCEPT !.kind = k, !.warned = n]
NoHist == [op |-> "none", acq |-> 0, rel |-> 0, calls |-> 0, arg |-> 0,
           before |-> CImageNew]
NoFill == [on |-> FALSE]

\* The frame the native library hands out in the lifecycle specification.
SpecFrames == {Frame(1, 2, 2)}

\* ------------------------------------------------------------ native library
FreeHandles(nat) == {h \in Handles : nat[h].st = "free"}

Least(S) == CHOOSE x \in S : \A y \in S : x <= y

\* start_capture: on success a fresh handle; on failure the error slot is set,
\* nothing is allocated and the null handle is returned.
StartCapture(nat, ok) ==
    LET h == Least(FreeHandles(nat))
    IN  IF ok
        THEN [native |-> [nat EXCEPT ![h].st = "live"], handle |-> h,
              err |-> FALSE]
        ELSE [native |-> nat, handle |-> 0, err |-> TRUE]

\* capture_sceen: fills img in place on success; on failure sets the error
\* slot and leaves img as it was.
CaptureSceen(nat, h, img, frame, ok) ==
    [native |-> IF h \in Handles
                THEN [nat EXCEPT ![h].captured = @ \/ ok]
                ELSE nat,
     img    |-> IF ok THEN frame ELSE img,
     err    |-> ~ok]

\* stop_capture: releases the handle (what the library recorded of its
\* captures goes with it); may report an error.
StopCapture(nat, h, ok) ==
    [native |-> IF h \in Handles
                THEN [nat EXCEPT ![h] = [st |-> "stopped", captured |-> FALSE,
                                         stops |-> @.stops + 1]]
                ELSE nat,
     err    |-> ~ok]

\* Threads inside ScreenCaptureX11::new that have not obtained a handle yet.
Starting == {t \in Threads : pc[t] \in {"new_lock", "new_call", "new_native"}}

\* The capture_cursor argument thread t passes to new.
CursorOf(t) == t % 2 = 1

\* ------------------------------------------------------------ new
NewBegin(t, cc) ==
    /\ pc[t] = "idle"
    /\ ~session[t].live
    /\ Cardinality(FreeHandles(native)) > Cardinality(Starting)
    /\ pc' = [pc EXCEPT ![t] = "new_lock"]
    /\ local' = [local EXCEPT ![t] = [NoLocal EXCEPT !.capture_cursor = cc]]
    /\ hist' = [hist EXCEPT ![t] = [NoHist EXCEPT !.op = "new"]]
    /\ out' = [out EXCEPT ![t] = NoOut]
    /\ UNCHANGED <<lock, session, native, fill>>

NewLock(t) ==
    /\ pc[t] = "new_lock"
    /\ lock = 0
    /\ lock' = t
    /\ pc' = [pc EXCEPT ![t] = "new_call"]
    /\ hist' = [hist EXCEPT ![t].acq = @ + 1]
    /\ UNCHANGED <<session, local, out, native, fill>>

NewCall(t) ==
    /\ pc[t] = "new_call"
    /\ pc' = [pc EXCEPT ![t] = "new_native"]
    /\ hist' = [hist EXCEPT ![t].calls = @ + 1]
    /\ UNCHANGED <<lock, session, local, out, native, fill>>

NewNativeReturn(t, ok) ==
    /\ pc[t] = "new_native"
    /\ LET r == StartCapture(native, ok)
       IN  /\ native' = r.native
           /\ local' = [local EXCEPT ![t].handle = r.handle, ![t].err = r.err]
    /\ pc' = [pc EXCEPT ![t] = "new_unlock"]
    /\ UNCHANGED <<lock, session, out, hist, fill>>

\* Mutant: new returns the error before it releases the lock.
NewUnlockSkippedOnErr(t) ==
    /\ pc[t] = "new_unlock"
    /\ lock' = IF local[t].err THEN lock ELSE 0
    /\ pc' = [pc EXCEPT ![t] = "new_ret"]
    /\ hist' = [hist EXCEPT ![t].rel = IF local[t].err THEN @ ELSE @ + 1]
    /\ UNCHANGED <<session, local, out, native, fill>>

NewUnlock(t) ==
    /\ pc[t] = "new_unlock"
    /\ lock' = 0
    /\ pc' = [pc EXCEPT ![t] = "new_ret"]
    /\ hist' = [hist EXCEPT ![t].rel = @ + 1]
    /\ UNCHANGED <<session, local, out, native, fill>>

\* Mutant: new ignores the error slot and wraps whatever handle came back.
NewReturnIgnoresErr(t) ==
    /\ pc[t] = "new_ret"
    /\ out' = [out EXCEPT ![t] = Out("ok", 0)]
    /\ session' = [session EXCEPT ![t] =
           [live |-> TRUE, handle |-> local[t].handle, img |-> CImageNew,
            capture_cursor |-> local[t].capture_cursor]]
    /\ pc' = [pc EXCEPT ![t] = "idle"]
    /\ local' = [local EXCEPT ![t] = NoLocal]
    /\ hist' = [hist EXCEPT ![t] = NoHist]
    /\ UNCHANGED <<lock, native, fill>>

NewReturn(t) ==
    /\ pc[t] = "new_ret"
    /\ IF local[t].err
       THEN /\ out' = [out EXCEPT ![t] = Out("err", 0)]
            /\ UNCHANGED session
       ELSE /\ out' = [out EXCEPT ![t] = Out("ok", 0)]
            /\ session' = [session EXCEPT ![t] =
                   [live |-> TRUE, handle |-> local[t].handle,
                    img |-> CImageNew,
                    capture_cursor |-> local[t].capture_cursor]]
    /\ pc' = [pc EXCEPT ![t] = "idle"]
    /\ local' = [local EXCEPT ![t] = NoLocal]
    /\ hist' = [hist EXCEPT ![t] = NoHist]
    /\ UNCHANGED <<lock, native, fill>>

\* ------------------------------------------------------------ capture
CaptureBegin(t) ==
    /\ pc[t] = "idle"
    /\ session[t].live
    /\ pc' = [pc EXCEPT ![t] = "cap_lock"]
    /\ local' = [local EXCEPT ![t] = NoLocal]
    /\ hist' = [hist EXCEPT ![t] =
           [NoHist EXCEPT !.op = "capture", !.before = session[t].img]]
    /\ out' = [out EXCEPT ![t] = NoOut]
    /\ UNCHANGED <<lock, session, native, fill>>

\* Mutant: capture goes on without waiting for the lock to be free.
CaptureLockNoWait(t) ==
    /\ pc[t] = "cap_lock"
    /\ lock' = t
    /\ pc' = [pc EXCEPT ![t] = "cap_call"]
    /\ hist' = [hist EXCEPT ![t].acq = @ + 1]
    /\ UNCHANGED <<session, local, out, native, fill>>

CaptureLock(t) ==
    /\ pc[t] = "cap_lock"
    /\ lock = 0
    /\ lock' = t
    /\ pc' = [pc EXCEPT ![t] = "cap_call"]
    /\ hist' = [hist EXCEPT ![t].acq = @ + 1]
    /\ UNCHANGED <<session, local, out, native, fill>>

CaptureCall(t) ==
    /\ pc[t] = "cap_call"
    /\ pc' = [pc EXCEPT ![t] = "cap_native"]
    /\ hist' = [hist EXCEPT ![t].calls = @ + 1, ![t].arg = session[t].handle]
    /\ UNCHANGED <<lock, session, local, out, native, fill>>

\* Mutant: capture gives the handle up when the native call fails.
CaptureNativeReturnStopsOnErr(t, frame, ok) ==
    /\ pc[t] = "cap_native"
    /\ LET r == CaptureSceen(native, hist[t].arg, session[t].img, frame, ok)
       IN  /\ native' = IF r.err
                        THEN StopCapture(r.native, hist[t].arg, TRUE).native
                        ELSE r.native
           /\ session' = [session EXCEPT ![t].img = r.img]
           /\ local' = [local EXCEPT ![t].err = r.err]
    /\ pc' = [pc EXCEPT ![t] = "cap_unlock"]
    /\ UNCHANGED <<lock, out, hist, fill>>

CaptureNativeReturn(t, frame, ok) ==
    /\ pc[t] = "cap_native"
    /\ LET r == CaptureSceen(native, hist[t].arg, session[t].img, frame, ok)
       IN  /\ native' = r.native
           /\ session' = [session EXCEPT ![t].img = r.img]
           /\ local' = [local EXCEPT ![t].err = r.err]
    /\ pc' = [pc EXCEPT ![t] = "cap_unlock"]
    /\ UNCHANGED <<lock, out, hist, fill>>

\* Mutant: capture leaves early on an error, before the unlock.
CaptureUnlockSkippedOnErr(t) ==
    /\ pc[t] = "cap_unlock"
    /\ lock' = IF local[t].err THEN lock ELSE 0
    /\ pc' = [pc EXCEPT ![t] = "cap_ret"]
    /\ hist' = [hist EXCEPT ![t].rel = IF local[t].err THEN @ ELSE @ + 1]
    /\ UNCHANGED <<session, local, out, native, fill>>

CaptureUnlock(t) ==
    /\ pc[t] = "cap_unlock"
    /\ lock' = 0
    /\ pc' = [pc EXCEPT ![t] = "cap_ret"]
    /\ hist' = [hist EXCEPT ![t].rel = @ + 1]
    /\ UNCHANGED <<session, local, out, native, fill>>

\* Mutant: capture resets the frame when the native call failed.
CaptureReturnClearsFrame(t) ==
    /\ pc[t] = "cap_ret"
    /\ out' = [out EXCEPT ![t] = Out("unit", IF local[t].err THEN 1 ELSE 0)]
    /\ session' = IF local[t].err
                  THEN [session EXCEPT ![t].img = CImageNew]
                  ELSE session
    /\ pc' = [pc EXCEPT ![t] = "idle"]
    /\ local' = [local EXCEPT ![t] = NoLocal]
    /\ hist' = [hist EXCEPT ![t] = NoHist]
    /\ UNCHANGED <<lock, native, fill>>

\* Mutant: capture drops the error slot unread, as drop does.
CaptureReturnSilent(t) ==
    /\ pc[t] = "cap_ret"
    /\ out' = [out EXCEPT ![t] = Out("unit", 0)]
    /\ pc' = [pc EXCEPT ![t] = "idle"]
    /\ local' = [local EXCEPT ![t] = NoLocal]
    /\ hist' = [hist EXCEPT ![t] = NoHist]
    /\ UNCHANGED <<lock, session, native, fill>>

CaptureReturn(t) ==
    /\ pc[t] = "cap_ret"
    /\ out' = [out EXCEPT ![t] = Out("unit", IF local[t].err THEN 1 ELSE 0)]
    /\ pc' = [pc EXCEPT ![t] = "idle"]
    /\ local' = [local EXCEPT ![t] = NoLocal]
    /\ hist' = [hist EXCEPT ![t] = NoHist]
    /\ UNCHANGED <<lock, session, native, fill>>

\* ------------------------------------------------------------ drop
DropBegin(t) ==
    /\ pc[t] = "idle"
    /\ session[t].live
    /\ pc' = [pc EXCEPT ![t] = "drop_lock"]
    /\ local' = [local EXCEPT ![t] = NoLocal]
    /\ hist' = [hist EXCEPT ![t] = [NoHist EXCEPT !.op = "drop"]]
    /\ out' = [out EXCEPT ![t] = NoOut]
    /\ UNCHANGED <<lock, session, native, fill>>

DropLock(t) ==
    /\ pc[t] = "drop_lock"
    /\ lock = 0
    /\ lock' = t
    /\ pc' = [pc EXCEPT ![t] = "drop_call"]
    /\ hist' = [hist EXCEPT ![t].acq = @ + 1]
    /\ UNCHANGED <<session, local, out, native, fill>>

DropCall(t) ==
    /\ pc[t] = "drop_call"
    /\ pc' = [pc EXCEPT ![t] = "drop_native"]
    /\ hist' = [hist EXCEPT ![t].calls = @ + 1, ![t].arg = session[t].handle]
    /\ UNCHANGED <<lock, session, local, out, native, fill>>

DropNativeReturn(t, ok) ==
    /\ pc[t] = "drop_native"
    /\ LET r == StopCapture(native, hist[t].arg, ok)
       IN  /\ native' = r.native
           /\ local' = [local EXCEPT ![t].err = r.err]
    /\ pc' = [pc EXCEPT ![t] = "drop_unlock"]
    /\ UNCHANGED <<lock, session, out, hist, fill>>

DropUnlock(t) ==
    /\ pc[t] = "drop_unlock"
    /\ lock' = 0
    /\ pc' = [pc EXCEPT ![t] = "drop_ret"]
    /\ hist' = [hist EXCEPT ![t].rel = @ + 1]
    /\ UNCHANGED <<session, local, out, native, fill>>

\* Mutant: the session outlives its drop (its handle can be used again).
DropReturnKeepsSession(t) ==
    /\ pc[t] = "drop_ret"
    /\ out' = [out EXCEPT ![t] = Out("dropped", 0)]
    /\ pc' = [pc EXCEPT ![t] = "idle"]
    /\ local' = [local EXCEPT ![t] = NoLocal]
    /\ hist' = [hist EXCEPT ![t] = NoHist]
    /\ UNCHANGED <<lock, session, native, fill>>

\* drop returns after the unlock: the error slot is discarded unread, no
\* event is emitted, and the session's storage is gone.
DropReturn(t) ==
    /\ pc[t] = "drop_ret"
    /\ session' = [session EXCEPT ![t] = NoSession]
    /\ out' = [out EXCEPT ![t] = Out("dropped", 0)]
    /\ pc' = [pc EXCEPT ![t] = "idle"]
    /\ local' = [local EXCEPT ![t] = NoLocal]
    /\ hist' = [hist EXCEPT ![t] = NoHist]
    /\ UNCHANGED <<lock, native, fill>>

\* ------------------------------------------------------------ size
Size(t) ==
    /\ pc[t] = "idle"
    /\ session[t].live
    /\ out' = [out EXCEPT ![t] = SizeOf(session[t])]
    /\ UNCHANGED <<lock, pc, session, local, native, hist, fill>>

\* ------------------------------------------------------------ data
\* The first statement of fill_yuv, self.img.data(): a slice of size() bytes
\* at the data pointer (its length is handed back in planes.len).
DataView(t) ==
    /\ pc[t] = "idle"
    /\ session[t].live
    /\ session[t].img.data # 0
    /\ \/ out' = [out EXCEPT ![t] =
               [NoOut EXCEPT !.kind = "data",
                             !.planes = [len |-> CImageSizeLimbs(session[t].img)]]]
       \/ /\ CImageSizeOverflows(session[t].img)
          /\ out' = [out EXCEPT ![t] = Out("panic", 0)]
    /\ UNCHANGED <<lock, pc, session, local, native, hist, fill>>

\* ------------------------------------------------------------ native memory
\* Channel levels of the solid-colour buffers 1000..1999.
RangeLevels == <<0, 1, 16, 64, 127, 128, 191, 239, 254, 255>>

\* Byte i of the native pixel buffer that pointer p addresses.  Buffers 1 and
\* 2 hold a different byte at every offset, 3..10 are the solid corner colours
\* of the RGB cube, 11 and 12 are grey ramps (b = g = r in every pixel);
\* buffer 1000 + 100 ir + 10 ig + ib is the solid colour of levels ib, ig, ir.
Deref(p, i) ==
    LET ch == i % 4
        px == i \div 4
        c  == p - 3
        k  == p - 1000
    IN  CASE p = 1 -> (37 * i + 11) % 256
          [] p \in 1000..1999 ->
                 CASE ch = 0 -> RangeLevels[(k % 10) + 1]
                   [] ch = 1 -> RangeLevels[((k \div 10) % 10) + 1]
                   [] ch = 2 -> RangeLevels[((k \div 100) % 10) + 1]
                   [] OTHER  -> 255
          [] p = 2 -> (101 * i + 250) % 256
          [] p \in 3..10 ->
                 CASE ch = 0 -> 255 * (c % 2)
                   [] ch = 1 -> 255 * ((c \div 2) % 2)
                   [] ch = 2 -> 255 * ((c \div 4) % 2)
                   [] OTHER  -> 85
          [] p = 11 -> IF ch = 3 THEN (7 * i) % 256 ELSE (85 * px + 40) % 256
          [] p = 12 -> IF ch = 3 THEN 0 ELSE 255 * (px % 2)
          [] OTHER  -> (i * i + 3 * p) % 256

\* Initial content of byte k of a caller's plane.
PlaneInit(k) == (29 * k + 201) % 256

Plane(len) == [k \in 0..(len - 1) |-> PlaneInit(k)]

\* ------------------------------------------------------------ fill_yuv
\* `as u8` of an i32: the low eight bits.
AsU8(x) == x % 256

\* i32 >> k is the arithmetic shift, a floor division.
\* Mutant: the source is read as r, g, b, a.
LumaValueSwapped(b, g, r) ==
    AsU8(((66 * b + 129 * g + 25 * r + 128) \div 256) + 16)

\* Mutant: the offset of the limited range is left out.
LumaRawNoOffset(b, g, r) == (66 * r + 129 * g + 25 * b + 128) \div 256

\* The i32 values fill_yuv computes, before they are narrowed.
LumaRaw(b, g, r) == ((66 * r + 129 * g + 25 * b + 128) \div 256) + 16

ChromaURaw(b, g, r) == ((128 + 112 * b - 38 * r - 74 * g) \div 256) + 128

ChromaVRaw(b, g, r) == ((128 + 112 * r - 94 * g - 18 * b) \div 256) + 128

LumaValue(b, g, r) == AsU8(LumaRaw(b, g, r))

\* Mutant: the red weight of U is 37 where it is 38.
ChromaUWeightSlip(b, g, r) ==
    AsU8(((128 + 112 * b - 37 * r - 74 * g) \div 256) + 128)

ChromaU(b, g, r) == AsU8(ChromaURaw(b, g, r))

\* Mutant: V is computed without the rounding term.
ChromaVTruncating(b, g, r) ==
    AsU8(((112 * r - 94 * g - 18 * b) \div 256) + 128)

ChromaV(b, g, r) == AsU8(ChromaVRaw(b, g, r))

\* fill_yuv's locals before its first loop: the data slice (pointer and
\* length), width and height, the caller's planes and line sizes.  n counts
\* the iterations of the running loop nest, log collects the writes made.
FillStart(img, y, u, v, yls, uls, vls) ==
    [on |-> TRUE, data |-> img.data, len |-> CImageSize(img),
     width |-> img.width, height |-> img.height,
     y |-> y, u |-> u, v |-> v,
     y_line_size |-> yls, u_line_size |-> uls, v_line_size |-> vls,
     stage |-> "y", n |-> 0, log |-> {}]

\* Mutant: the luma loop runs over the full width, odd last column included.
LumaStepFullWidth(f) ==
    LET rows == f.height - (f.height % 2)
        cols == f.width
    IN  IF f.n >= rows * cols
        THEN [f EXCEPT !.stage = "c", !.n = 0]
        ELSE LET yy == f.n \div cols
                 xx == f.n % cols
                 i  == 4 * (f.width * yy + xx)
                 k  == f.y_line_size * yy + xx
             IN  IF i + 2 >= f.len \/ k \notin DOMAIN f.y
                 THEN [f EXCEPT !.stage = "panic"]
                 ELSE LET val == LumaValue(Deref(f.data, i),
                                           Deref(f.data, i + 1),
                                           Deref(f.data, i + 2))
                      IN  [f EXCEPT !.y[k] = val,
                                    !.log = @ \cup {<<"y", k, val>>},
                                    !.n = @ + 1]

\* One iteration of the luma loop nest (or its exit).  An index outside the
\* data slice or outside the plane panics.
LumaStep(f) ==
    LET rows == f.height - (f.height % 2)
        cols == f.width - (f.width % 2)
    IN  IF f.n >= rows * cols
        THEN [f EXCEPT !.stage = "c", !.n = 0]
        ELSE LET yy == f.n \div cols
                 xx == f.n % cols
                 i  == 4 * (f.width * yy + xx)
                 k  == f.y_line_size * yy + xx
             IN  IF i + 2 >= f.len \/ k \notin DOMAIN f.y
                 THEN [f EXCEPT !.stage = "panic"]
                 ELSE LET val == LumaValue(Deref(f.data, i),
                                           Deref(f.data, i + 1),
                                           Deref(f.data, i + 2))
                      IN  [f EXCEPT !.y[k] = val,
                                    !.log = @ \cup {<<"y", k, val>>},
                                    !.n = @ + 1]

\* Mutant: the block's row is taken for a source row.
ChromaBaseChromaRow(width, yy, xx) == 4 * (yy * width + 2 * xx)

\* Mutant: the block is taken one source row too low.
ChromaBaseRowBelow(width, yy, xx) == 8 * (yy * width + xx) + 4 * width

\* Offset of the top-left pixel of chroma block (xx, yy) in the source.
ChromaBase(width, yy, xx) == 8 * (yy * width + xx)

\* One iteration of the chroma loop nest (or its exit).  All reads precede
\* the writes; u is written before v's index is checked.
ChromaStep(f) ==
    LET rows == f.height \div 2
        cols == f.width \div 2
    IN  IF f.n >= rows * cols
        THEN [f EXCEPT !.stage = "done", !.n = 0]
        ELSE LET yy == f.n \div cols
                 xx == f.n % cols
                 i  == ChromaBase(f.width, yy, xx)
                 y_len == 4 * f.width
                 ku == yy * f.u_line_size + xx
                 kv == yy * f.v_line_size + xx
                 D(j) == Deref(f.data, j)
                 b == (D(i) + D(i + 4) + D(i + y_len) + D(i + 4 + y_len))
                          \div 4
                 g == (D(i + 1) + D(i + 1 + 4) + D(i + 1 + y_len)
                          + D(i + 1 + 4 + y_len)) \div 4
                 r == (D(i + 2) + D(i + 2 + 4) + D(i + 2 + y_len)
                          + D(i + 2 + 4 + y_len)) \div 4
                 uval == ChromaU(b, g, r)
                 vval == ChromaV(b, g, r)
             IN  IF i + 2 + 4 + y_len >= f.len \/ ku \notin DOMAIN f.u
                 THEN [f EXCEPT !.stage = "panic"]
                 ELSE IF kv \notin DOMAIN f.v
                 THEN [f EXCEPT !.u[ku] = uval,
                                !.log = @ \cup {<<"u", ku, uval>>},
                                !.stage = "panic"]
                 ELSE [f EXCEPT !.u[ku] = uval, !.v[kv] = vval,
                                !.log = @ \cup {<<"u", ku, uval>>,
                                                <<"v", kv, vval>>},
                                !.n = @ + 1]

FillStep(f) ==
    CASE f.stage = "y" -> LumaStep(f)
      [] f.stage = "c" -> ChromaStep(f)
      [] OTHER -> f

\* fill_yuv from its first loop to its return (or panic).
RECURSIVE FillRun(_)
FillRun(f) == IF f.stage \in {"done", "panic"} THEN f ELSE FillRun(FillStep(f))

\* What the caller sees of a finished fill_yuv.
Filled(f) ==
    [NoOut EXCEPT !.kind = IF f.stage = "done" THEN "filled" ELSE "panic",
                  !.planes = [y |-> f.y, u |-> f.u, v |-> f.v]]

\* Plane sizes the caller contract asks for: height * y_line_size bytes of
\* luma, ceil(height / 2) * line size bytes of chroma (slack bytes more).
LumaLen(img, yls, slack) ==
    LET n == img.height * yls + slack IN IF n < 0 THEN 0 ELSE n

ChromaLen(img, ls, slack) ==
    LET n == ((img.height + 1) \div 2) * ls + slack IN IF n < 0 THEN 0 ELSE n

\* The process is gone: nothing of it is left to observe.
Abort ==
    /\ lock' = 0
    /\ pc' = [t \in Threads |-> "abort"]
    /\ session' = [t \in Threads |-> NoSession]
    /\ local' = [t \in Threads |-> NoLocal]
    /\ out' = [t \in Threads |-> NoOut]
    /\ native' = [h \in Handles |->
                     [st |-> "free", captured |-> FALSE, stops |-> 0]]
    /\ hist' = [t \in Threads |-> NoHist]
    /\ fill' = [t \in Threads |-> NoFill]

\* self.img.data() builds a slice from the data pointer.  With the null
\* pointer of a never-captured frame this is undefined behaviour: the build
\* either carries on with the empty slice or stops the process on the
\* precondition check of from_raw_parts.
FillYuv(t, yls, uls, vls, slack) ==
    /\ pc[t] = "idle"
    /\ session[t].live
    /\ LET img == session[t].img
           f   == FillStart(img, Plane(LumaLen(img, yls, slack)),
                            Plane(ChromaLen(img, uls, slack)),
                            Plane(ChromaLen(img, vls, slack)), yls, uls, vls)
       IN  \/ /\ out' = [out EXCEPT ![t] = Filled(FillRun(f))]
              /\ UNCHANGED <<lock, pc, session, local, native, hist, fill>>
           \/ /\ img.data = 0
              /\ Abort

\* The same method, one loop iteration at a time.
FillYuvBegin(t, yls, uls, vls, slack) ==
    /\ pc[t] = "idle"
    /\ session[t].live
    /\ LET img == session[t].img
           f   == FillStart(img, Plane(LumaLen(img, yls, slack)),
                            Plane(ChromaLen(img, uls, slack)),
                            Plane(ChromaLen(img, vls, slack)), yls, uls, vls)
       IN  \/ /\ pc' = [pc EXCEPT ![t] = "fill"]
              /\ fill' = [fill EXCEPT ![t] = f]
              /\ out' = [out EXCEPT ![t] = NoOut]
              /\ UNCHANGED <<lock, session, local, native, hist>>
           \/ /\ img.data = 0
              /\ Abort

FillYuvStep(t) ==
    /\ pc[t] = "fill"
    /\ fill[t].stage \in {"y", "c"}
    /\ fill' = [fill EXCEPT ![t] = FillStep(fill[t])]
    /\ UNCHANGED <<lock, pc, session, local, out, native, hist>>

FillYuvReturn(t) ==
    /\ pc[t] = "fill"
    /\ fill[t].stage = "done"
    /\ out' = [out EXCEPT ![t] = Filled(fill[t])]
    /\ fill' = [fill EXCEPT ![t] = NoFill]
    /\ pc' = [pc EXCEPT ![t] = "idle"]
    /\ UNCHANGED <<lock, session, local, native, hist>>

\* ------------------------------------------------------------ specification
Init ==
    /\ lock = 0
    /\ pc = [t \in Threads |-> "idle"]
    /\ session = [t \in Threads |-> NoSession]
    /\ local = [t \in Threads |-> NoLocal]
    /\ out = [t \in Threads |-> NoOut]
    /\ native = [h \in Handles |->
                    [st |-> "free", captured |-> FALSE, stops |-> 0]]
    /\ hist = [t \in Threads |-> NoHist]
    /\ fill = [t \in Threads |-> NoFill]

Next ==
    \E t \in Threads :
        \/ NewBegin(t, CursorOf(t))
        \/ NewLock(t)
        \/ NewCall(t)
        \/ \E ok \in BOOLEAN : NewNativeReturn(t, ok)
        \/ NewUnlock(t)
        \/ NewReturn(t)
        \/ CaptureBegin(t)
        \/ CaptureLock(t)
        \/ CaptureCall(t)
        \/ \E f \in SpecFrames, ok \in BOOLEAN : CaptureNativeReturn(t, f, ok)
        \/ CaptureUnlock(t)
        \/ CaptureReturn(t)
        \/ DropBegin(t)
        \/ DropLock(t)
        \/ DropCall(t)
        \/ \E ok \in BOOLEAN : DropNativeReturn(t, ok)
        \/ DropUnlock(t)
        \/ DropReturn(t)
        \/ Size(t)
        \/ FillYuv(t, session[t].img.width, (session[t].img.width + 1) \div 2,
                   (session[t].img.width + 1) \div 2, 0)

Spec == Init /\ [][Next]_vars

\* ------------------------------------------------------------ scheduling
\* A step of thread t that waits for nothing: a thread that is running goes
\* on running, and a native call that was made returns.
Proceed(t) ==
    \/ NewCall(t)
    \/ \E ok \in BOOLEAN : NewNativeReturn(t, ok)
    \/ NewUnlock(t)
    \/ NewReturn(t)
    \/ CaptureCall(t)
    \/ \E f \in SpecFrames, ok \in BOOLEAN : CaptureNativeReturn(t, f, ok)
    \/ CaptureUnlock(t)
    \/ CaptureReturn(t)
    \/ DropCall(t)
    \/ \E ok \in BOOLEAN : DropNativeReturn(t, ok)
    \/ DropUnlock(t)
    \/ DropReturn(t)

\* Thread t obtains the lock it waits for.
Acquire(t) == NewLock(t) \/ CaptureLock(t) \/ DropLock(t)

\* Fair scheduling: no thread is held up forever where it can step, and a
\* thread waiting for a lock that is free again and again obtains it.
Fairness == \A t \in Threads : WF_vars(Proceed(t)) /\ SF_vars(Acquire(t))

SpecLive == Init /\ [][Next]_vars /\ Fairness

\* ------------------------------------------------------------ conversion runs
\* The frames a successful capture_sceen may leave in a session, and the
\* frame of a session that never captured.
YuvFrames ==
    {Frame(p, w, h) : p \in 1..NPatterns, w \in 0..MaxDim, h \in 0..MaxDim}
        \cup {CImageNew}

\* Line sizes callers pass: the row width, a padded row, and a luma line
\* size below the row width.
YStrides(img) == {img.width - (img.width % 2), img.width + 1, 1}
UStrides(img) == {img.width \div 2, img.width \div 2 + 1}
VStrides(img) == {img.width \div 2, img.width \div 2 + 2}

\* Thread 1 owns a session whose frame is any of YuvFrames and converts it.
InitYuv ==
    /\ lock = 0
    /\ pc = [t \in Threads |-> "idle"]
    /\ \E img \in YuvFrames :
           /\ session = [t \in Threads |->
                  IF t = 1
                  THEN [live |-> TRUE, handle |-> 1, img |-> img,
                        capture_cursor |-> CursorOf(1)]
                  ELSE NoSession]
           /\ native = [h \in Handles |->
                  IF h = 1
                  THEN [st |-> "live", captured |-> img # CImageNew,
                        stops |-> 0]
                  ELSE [st |-> "free", captured |-> FALSE, stops |-> 0]]
    /\ local = [t \in Threads |-> NoLocal]
    /\ out = [t \in Threads |-> NoOut]
    /\ hist = [t \in Threads |-> NoHist]
    /\ fill = [t \in Threads |-> NoFill]

NextYuv ==
    \/ \E yls \in YStrides(session[1].img), uls \in UStrides(session[1].img),
          vls \in VStrides(session[1].img), slack \in {0, -1} :
           FillYuvBegin(1, yls, uls, vls, slack)
    \/ FillYuvStep(1)
    \/ FillYuvReturn(1)

SpecYuv == InitYuv /\ [][NextYuv]_vars

\* ------------------------------------------------------------ colour range runs
\* 2x2 frames of every solid colour over RangeLevels, and the frame of a
\* session that never captured.
RangeFrames == {Frame(p, 2, 2) : p \in 1000..1999} \cup {CImageNew}

\* Thread 1 owns a session whose frame is any of RangeFrames and converts it
\* into planes of exactly the row width.
InitRange ==
    /\ lock = 0
    /\ pc = [t \in Threads |-> "idle"]
    /\ \E img \in RangeFrames :
           /\ session = [t \in Threads |->
                  IF t = 1
                  THEN [live |-> TRUE, handle |-> 1, img |-> img,
                        capture_cursor |-> CursorOf(1)]
                  ELSE NoSession]
           /\ native = [h \in Handles |->
                  IF h = 1
                  THEN [st |-> "live", captured |-> img # CImageNew,
                        stops |-> 0]
                  ELSE [st |-> "free", captured |-> FALSE, stops |-> 0]]
    /\ local = [t \in Threads |-> NoLocal]
    /\ out = [t \in Threads |-> NoOut]
    /\ hist = [t \in Threads |-> NoHist]
    /\ fill = [t \in Threads |-> NoFill]

NextRange ==
    \/ FillYuvBegin(1, session[1].img.width, session[1].img.width \div 2,
                    session[1].img.width \div 2, 0)
    \/ FillYuvStep(1)
    \/ FillYuvReturn(1)

SpecRange == InitRange /\ [][NextRange]_vars

\* ------------------------------------------------------------ data view runs
\* Widths and heights a frame descriptor can hold: small ones, screen sizes,
\* and values around the powers of two up to the largest the checker's
\* integers hold.
BigDims == {0, 1, 3, 1080, 1920, 32767, 32768, 65535, 65536, 1073741824,
            2147483647}

SizeFrames == {Frame(1, w, h) : w \in BigDims, h \in BigDims}

\* Thread 1 owns a session whose frame descriptor is any of SizeFrames.
InitSize ==
    /\ lock = 0
    /\ pc = [t \in Threads |-> "idle"]
    /\ \E img \in SizeFrames :
           session = [t \in Threads |->
               IF t = 1
               THEN [live |-> TRUE, handle |-> 1, img |-> img,
                     capture_cursor |-> CursorOf(1)]
               ELSE NoSession]
    /\ native = [h \in Handles |->
           IF h = 1
           THEN [st |-> "live", captured |-> TRUE, stops |-> 0]
           ELSE [st |-> "free", captured |-> FALSE, stops |-> 0]]
    /\ local = [t \in Threads |-> NoLocal]
    /\ out = [t \in Threads |-> NoOut]
    /\ hist = [t \in Threads |-> NoHist]
    /\ fill = [t \in Threads |-> NoFill]

NextSize ==
    \/ DataView(1)
    \/ Size(1)

SpecSize == InitSize /\ [][NextSize]_vars

\* ------------------------------------------------------------ properties
NativeStages == {"new_native", "cap_native", "drop_native"}
AfterNativeStages == {"new_unlock", "cap_unlock", "drop_unlock"}
ReturnStages == {"new_ret", "cap_ret", "drop_ret"}
LockedStages == {"new_call", "cap_call", "drop_call"}
                    \cup NativeStages \cup AfterNativeStages

InNative(t) == pc[t] \in NativeStages

\* C1: every native call (start_capture, capture_sceen, stop_capture) is made
\* with the UI lock held by the caller, after exactly one acquire and before
\* exactly one release of the method that makes it, and at most one native
\* call is in progress at any moment.
C1_NativeCallsBracketedByLock ==
    /\ \A t \in Threads :
          /\ InNative(t) =>
                /\ lock = t
                /\ hist[t].acq = 1 /\ hist[t].rel = 0 /\ hist[t].calls = 1
          /\ pc[t] \in AfterNativeStages =>
                /\ lock = t
                /\ hist[t].acq = 1 /\ hist[t].rel = 0 /\ hist[t].calls = 1
          /\ pc[t] \in ReturnStages =>
                hist[t].acq = 1 /\ hist[t].rel = 1 /\ hist[t].calls = 1
    /\ Cardinality({t \in Threads : InNative(t)}) <= 1

\* A capture_sceen call is in progress while another thread waits for the lock.
C1_Witness ==
    \E t \in Threads, w \in Threads :
        /\ t # w
        /\ pc[t] = "cap_native"
        /\ pc[w] \in {"new_lock", "cap_lock", "drop_lock"}

\* C2: a thread holds the UI lock only from its acquire to the release that
\* follows its native call: never when new, capture or drop are about to
\* return (whatever the native call reported), and never where size or
\* fill_yuv run.
C2_LockHeldOnlyAroundNativeCall ==
    /\ lock \in Threads \cup {0}
    /\ \A t \in Threads :
          /\ lock = t => pc[t] \in LockedStages
          /\ out[t].kind \in {"size", "filled", "err", "unit", "dropped"} =>
                lock # t

\* capture is about to report a failed native call while another thread has
\* a finished conversion.
C2_Witness ==
    \E t \in Threads, w \in Threads :
        /\ pc[t] = "cap_ret" /\ local[t].err
        /\ out[w].kind = "filled"

\* Threads that own the session of handle h, or are returning it from new.
Owners(h) == {t \in Threads : session[t].live /\ session[t].handle = h}
Returning(h) ==
    {t \in Threads : /\ pc[t] \in {"new_unlock", "new_ret"}
                     /\ ~local[t].err
                     /\ local[t].handle = h}

\* C3: stop_capture is invoked on a started handle exactly once over the
\* session's lifetime, by drop: never while the session is in use, once when
\* it is gone.
C3_StopExactlyOncePerSession ==
    \A h \in Handles :
        native[h].st # "free" =>
            IF Owners(h) = {} /\ Returning(h) = {}
            THEN native[h].stops = 1
            ELSE native[h].stops =
                     IF \E t \in Owners(h) : pc[t] \in {"drop_unlock", "drop_ret"}
                     THEN 1 ELSE 0

\* drop has stopped the handle of a session that captured frames.
C3_Witness ==
    \E t \in Threads :
        /\ pc[t] = "drop_ret"
        /\ session[t].img.data # 0
        /\ native[session[t].handle].stops = 1

\* C4: when start_capture reports an error, new returns the error and
\* creates no session: what new returns holds no handle, and no capture_sceen
\* or stop_capture call is made but on a handle a successful start returned.
C4_FailedStartLeavesNothing ==
    /\ [](\A t \in Threads :
            /\ session[t].live =>
                  /\ session[t].handle \in Handles
                  /\ native[session[t].handle].st # "free"
            /\ pc[t] \in {"cap_native", "drop_native"} =>
                  hist[t].arg \in Handles
            /\ pc[t] \in {"new_unlock", "new_ret"} => ~session[t].live
            /\ out[t].kind = "err" => ~session[t].live /\ lock # t)
    /\ [][\A t \in Threads :
            (pc[t] = "new_ret" /\ local[t].err /\ pc'[t] = "idle") =>
                /\ out'[t].kind = "err"
                /\ ~session'[t].live
                /\ native' = native]_vars

\* new has returned an error.
C4_Witness ==
    \E t \in Threads : pc[t] = "idle" /\ out[t].kind = "err"

\* C5: a capture() whose native call sets the error slot leaves the
\* session's frame (data, width, height) as it was when capture() began, up
\* to and including its return.
C5_FailedCaptureKeepsFrame ==
    /\ [](\A t \in Threads :
            (pc[t] \in {"cap_unlock", "cap_ret"} /\ local[t].err) =>
                session[t].img = hist[t].before)
    /\ [][\A t \in Threads :
            (pc[t] = "cap_ret" /\ local[t].err /\ pc'[t] = "idle") =>
                /\ session'[t].img = hist[t].before
                /\ SizeOf(session'[t]).w = hist[t].before.width
                /\ SizeOf(session'[t]).h = hist[t].before.height]_vars

\* A capture has failed on a session that holds a captured frame.
C5_Witness ==
    \E t \in Threads :
        /\ pc[t] = "cap_ret" /\ local[t].err
        /\ hist[t].before.data # 0

\* C6: capture() returns normally whatever the native call reported, emits
\* one warning when it failed and none otherwise, makes one native call (no
\* retry), and leaves the session alive with the same handle, on which the
\* next capture() makes its native call.
C6_CaptureNeverPropagates ==
    /\ [](\A t \in Threads :
            /\ pc[t] = "cap_ret" => hist[t].calls = 1 /\ session[t].live
            /\ pc[t] = "cap_native" => hist[t].arg = session[t].handle
            /\ (pc[t] = "idle" /\ out[t].kind = "unit") => session[t].live)
    /\ [][\A t \in Threads :
            (pc[t] = "cap_ret" /\ pc'[t] = "idle") =>
                /\ out'[t].kind = "unit"
                /\ out'[t].warned = IF local[t].err THEN 1 ELSE 0
                /\ session'[t].live
                /\ session'[t].handle = session[t].handle]_vars

\* capture() has returned after a failed native call, with its warning.
C6_Witness ==
    \E t \in Threads :
        /\ pc[t] = "idle"
        /\ out[t].kind = "unit" /\ out[t].warned = 1
        /\ session[t].live

\* C7: when stop_capture reports an error, drop emits a warning event (as
\* capture does for a failed capture) and returns normally.
C7_StopErrorIsWarned ==
    [][\A t \in Threads :
          (pc[t] = "drop_ret" /\ local[t].err /\ pc'[t] = "idle") =>
              /\ out'[t].kind = "dropped"
              /\ out'[t].warned = 1]_vars

\* C8: while no capture of a session has succeeded, its frame is the empty
\* frame and size() returns (0, 0), also after failed captures.
C8_EmptyFrameUntilFirstSuccess ==
    \A t \in Threads :
        (/\ session[t].live
         /\ native[session[t].handle].st = "live"
         /\ ~native[session[t].handle].captured) =>
            /\ session[t].img.data = 0
            /\ session[t].img.width = 0 /\ session[t].img.height = 0
            /\ SizeOf(session[t]).w = 0 /\ SizeOf(session[t]).h = 0
            /\ out[t].kind = "size" => out[t].w = 0 /\ out[t].h = 0

\* capture() has failed on a session that never captured a frame.
C8_Witness ==
    \E t \in Threads :
        /\ pc[t] = "idle"
        /\ out[t].kind = "unit" /\ out[t].warned = 1
        /\ session[t].live /\ ~native[session[t].handle].captured

\* Channel ch (0 blue, 1 green, 2 red) of source pixel (x, y) of a frame.
Px(img, x, y, ch) == Deref(img.data, 4 * (img.width * y + x) + ch)

ExpectedY(img, x, y) ==
    ((66 * Px(img, x, y, 2) + 129 * Px(img, x, y, 1) + 25 * Px(img, x, y, 0)
        + 128) \div 256) + 16

\* Sum of channel ch over the 2x2 block of chroma position (x, y), shifted
\* right by 2.
BlockAvg(img, x, y, ch) ==
    (Px(img, 2 * x, 2 * y, ch) + Px(img, 2 * x + 1, 2 * y, ch)
        + Px(img, 2 * x, 2 * y + 1, ch) + Px(img, 2 * x + 1, 2 * y + 1, ch))
        \div 4

ExpectedU(img, x, y) ==
    ((128 + 112 * BlockAvg(img, x, y, 0) - 38 * BlockAvg(img, x, y, 2)
        - 74 * BlockAvg(img, x, y, 1)) \div 256) + 128

ExpectedV(img, x, y) ==
    ((128 + 112 * BlockAvg(img, x, y, 2) - 94 * BlockAvg(img, x, y, 1)
        - 18 * BlockAvg(img, x, y, 0)) \div 256) + 128

\* C9: once fill_yuv's luma pass is through, it has written, for every pixel
\* (x, y) with x < width - width % 2 and y < height - height % 2, the value
\* ((66 r + 129 g + 25 b + 128) >> 8) + 16 of that pixel's bytes to
\* y[y_line_size * y + x]; where rows do not overlap (y_line_size at least
\* the row width) that is the byte the plane holds.
C9_LumaWritten ==
    \A t \in Threads :
        (pc[t] = "fill" /\ fill[t].stage \in {"c", "done"}) =>
            LET img == session[t].img
                f   == fill[t]
            IN  \A x \in 0..(img.width - (img.width % 2) - 1),
                  y \in 0..(img.height - (img.height % 2) - 1) :
                    /\ <<"y", f.y_line_size * y + x, ExpectedY(img, x, y)>>
                           \in f.log
                    /\ f.y_line_size >= img.width - (img.width % 2) =>
                           f.y[f.y_line_size * y + x] = ExpectedY(img, x, y)

\* A 5x3 frame of distinct bytes converted into a padded luma plane.
C9_Witness ==
    \E t \in Threads :
        /\ pc[t] = "fill" /\ fill[t].stage = "done"
        /\ session[t].img = Frame(1, 5, 3)
        /\ fill[t].y_line_size = 6

\* C10: once fill_yuv is through, it has written, for every chroma position
\* (x, y) with x < width / 2 and y < height / 2, U and V of the sums of b, g
\* and r over the source pixels (2x, 2y), (2x+1, 2y), (2x, 2y+1),
\* (2x+1, 2y+1), each shifted right by 2, to u[u_line_size * y + x] and
\* v[v_line_size * y + x].
C10_ChromaWritten ==
    \A t \in Threads :
        (pc[t] = "fill" /\ fill[t].stage = "done") =>
            LET img == session[t].img
                f   == fill[t]
            IN  \A x \in 0..((img.width \div 2) - 1),
                  y \in 0..((img.height \div 2) - 1) :
                    /\ <<"u", f.u_line_size * y + x, ExpectedU(img, x, y)>>
                           \in f.log
                    /\ <<"v", f.v_line_size * y + x, ExpectedV(img, x, y)>>
                           \in f.log
                    /\ f.u[f.u_line_size * y + x] = ExpectedU(img, x, y)
                    /\ f.v[f.v_line_size * y + x] = ExpectedV(img, x, y)

\* A 5x5 frame of distinct bytes converted into chroma planes of different
\* line sizes.
C10_Witness ==
    \E t \in Threads :
        /\ pc[t] = "fill" /\ fill[t].stage = "done"
        /\ session[t].img = Frame(1, 5, 5)
        /\ fill[t].u_line_size = 3 /\ fill[t].v_line_size = 4

\* Every pixel of the frame has blue b, green g and red r.
Solid(img, b, g, r) ==
    \A x \in 0..(img.width - 1), y \in 0..(img.height - 1) :
        /\ Px(img, x, y, 0) = b
        /\ Px(img, x, y, 1) = g
        /\ Px(img, x, y, 2) = r

\* Every luma position of the frame's truncated region holds val in plane y.
LumaAll(f, val) ==
    \A x \in 0..(f.width - (f.width % 2) - 1),
      y \in 0..(f.height - (f.height % 2) - 1) :
        f.y[f.y_line_size * y + x] = val

\* A finished fill_yuv of thread t on a 2x2 frame.
Done2x2(t) ==
    /\ pc[t] = "fill" /\ fill[t].stage = "done"
    /\ session[t].img.width = 2 /\ session[t].img.height = 2

\* C11 (as stated): for a 2x2 source whose every pixel is pure red (r = 255,
\* g = 0, b = 0), fill_yuv writes Y = 81 at every luma position, U = 90 and
\* V = 240 for the single chroma sample.
C11_PureRedAsStated ==
    \A t \in Threads :
        (Done2x2(t) /\ Solid(session[t].img, 0, 0, 255)) =>
            /\ LumaAll(fill[t], 81)
            /\ fill[t].u[0] = 90
            /\ fill[t].v[0] = 240

\* C11 (amended): for a 2x2 source whose every pixel is pure red, fill_yuv
\* writes Y = 82 at every luma position (((66 * 255 + 128) >> 8) + 16 is 82),
\* U = 90 and V = 240 for the single chroma sample.
C11_PureRed ==
    \A t \in Threads :
        (Done2x2(t) /\ Solid(session[t].img, 0, 0, 255)) =>
            /\ LumaAll(fill[t], 82)
            /\ fill[t].u[0] = 90
            /\ fill[t].v[0] = 240

\* A pure red 2x2 frame has been converted.
C11_Witness ==
    \E t \in Threads :
        /\ Done2x2(t)
        /\ Solid(session[t].img, 0, 0, 255)
        /\ fill[t].log # {}

\* The four pixels of chroma block (x, y) are grey: b = g = r in each.
GreyBlock(img, x, y) ==
    \A dx \in 0..1, dy \in 0..1 :
        /\ Px(img, 2 * x + dx, 2 * y + dy, 0) = Px(img, 2 * x + dx, 2 * y + dy, 1)
        /\ Px(img, 2 * x + dx, 2 * y + dy, 1) = Px(img, 2 * x + dx, 2 * y + dy, 2)

\* The four pixels of chroma block (x, y) are not all the same grey.
MixedGreys(img, x, y) ==
    /\ GreyBlock(img, x, y)
    /\ Px(img, 2 * x, 2 * y, 0) # Px(img, 2 * x + 1, 2 * y, 0)

\* C12: pure-luminance input yields neutral chroma: for every 2x2 block whose
\* four pixels each have b = g = r (the grey levels may differ), a finished
\* fill_yuv has written U = 128 and V = 128; an all-black 2x2 source gives
\* Y = 16 at every luma position and an all-white one Y = 235.
C12_GreyIsNeutral ==
    \A t \in Threads :
        (pc[t] = "fill" /\ fill[t].stage = "done") =>
            LET img == session[t].img
                f   == fill[t]
            IN  /\ \A x \in 0..((img.width \div 2) - 1),
                     y \in 0..((img.height \div 2) - 1) :
                       GreyBlock(img, x, y) =>
                           /\ f.u[f.u_line_size * y + x] = 128
                           /\ f.v[f.v_line_size * y + x] = 128
                           /\ <<"u", f.u_line_size * y + x, 128>> \in f.log
                           /\ <<"v", f.v_line_size * y + x, 128>> \in f.log
                /\ (Done2x2(t) /\ Solid(img, 0, 0, 0)) => LumaAll(f, 16)
                /\ (Done2x2(t) /\ Solid(img, 255, 255, 255)) => LumaAll(f, 235)

\* A frame with a block of differing grey levels, neither black nor white,
\* has been converted.
C12_Witness ==
    \E t \in Threads :
        /\ pc[t] = "fill" /\ fill[t].stage = "done"
        /\ session[t].img.width >= 4 /\ session[t].img.height >= 2
        /\ MixedGreys(session[t].img, 1, 0)
        /\ Px(session[t].img, 2, 0, 0) \notin {0, 255}

\* The positions the luma pass and a chroma pass of line size ls address.
LumaPositions(f) ==
    {f.y_line_size * y + x : x \in 0..(f.width - (f.width % 2) - 1),
                             y \in 0..(f.height - (f.height % 2) - 1)}

ChromaPositions(f, ls) ==
    {ls * y + x : x \in 0..((f.width \div 2) - 1),
                  y \in 0..((f.height \div 2) - 1)}

\* The indices of plane pl that fill_yuv has written so far.
Written(f, pl) == {e[2] : e \in {w \in f.log : w[1] = pl}}

\* Every byte of plane outside the positions pos is as the caller passed it.
Untouched(plane, pos) ==
    \A k \in (DOMAIN plane) \ pos : plane[k] = PlaneInit(k)

\* C13: fill_yuv writes only luma positions y_line_size * y + x (x below
\* width - width % 2, y below height - height % 2) and chroma positions
\* line_size * y + x (x below width / 2, y below height / 2), and when it
\* returns it has written each of them; every other byte of the three planes
\* is as it was, and the session's frame is left unchanged by the call.
C13_WritesExactlyItsPositions ==
    /\ [](\A t \in Threads :
            pc[t] = "fill" =>
                LET f == fill[t]
                IN  /\ Written(f, "y") \subseteq LumaPositions(f)
                    /\ Written(f, "u") \subseteq ChromaPositions(f, f.u_line_size)
                    /\ Written(f, "v") \subseteq ChromaPositions(f, f.v_line_size)
                    /\ Untouched(f.y, LumaPositions(f))
                    /\ Untouched(f.u, ChromaPositions(f, f.u_line_size))
                    /\ Untouched(f.v, ChromaPositions(f, f.v_line_size))
                    /\ f.stage = "done" =>
                          /\ Written(f, "y") = LumaPositions(f)
                          /\ Written(f, "u") = ChromaPositions(f, f.u_line_size)
                          /\ Written(f, "v") = ChromaPositions(f, f.v_line_size)
                    /\ f.width = session[t].img.width
                    /\ f.height = session[t].img.height)
    /\ [][\A t \in Threads :
            (pc[t] = "fill" \/ pc'[t] = "fill") => session'[t] = session[t]]_vars

\* A 5x3 frame has been converted into planes with padded rows: the plane
\* bytes of the odd last column and of the padding were not addressed.
C13_Witness ==
    \E t \in Threads :
        /\ pc[t] = "fill" /\ fill[t].stage = "done"
        /\ fill[t].width = 5 /\ fill[t].height = 3
        /\ fill[t].y_line_size = 6 /\ fill[t].u_line_size = 3
        /\ (DOMAIN fill[t].y) \ LumaPositions(fill[t]) # {}
        /\ (DOMAIN fill[t].u) \ ChromaPositions(fill[t], 3) # {}

\* The preconditions of a fill_yuv call: a source of width * height * 4
\* bytes, a luma plane of at least height * y_line_size bytes, chroma planes
\* of at least ceil(height / 2) * line size bytes, every line size at least
\* the row width its pass writes.
CallerContract(f) ==
    /\ f.len = 4 * f.width * f.height
    /\ Cardinality(DOMAIN f.y) >= f.height * f.y_line_size
    /\ Cardinality(DOMAIN f.u) >= ((f.height + 1) \div 2) * f.u_line_size
    /\ Cardinality(DOMAIN f.v) >= ((f.height + 1) \div 2) * f.v_line_size
    /\ f.y_line_size >= f.width - (f.width % 2)
    /\ f.u_line_size >= f.width \div 2
    /\ f.v_line_size >= f.width \div 2

\* C14: under the caller preconditions, for every width and height up to
\* MaxDim (odd and zero included), no index fill_yuv reads is outside the
\* source and none it writes is outside its plane: no indexing panics, in
\* the luma pass or in the chroma pass (which reads one pixel to the right
\* and one row below), and every write has landed inside its plane.
C14_IndicesInBounds ==
    \A t \in Threads :
        (pc[t] = "fill" /\ CallerContract(fill[t])) =>
            LET f == fill[t]
            IN  /\ f.stage # "panic"
                /\ Written(f, "y") \subseteq DOMAIN f.y
                /\ Written(f, "u") \subseteq DOMAIN f.u
                /\ Written(f, "v") \subseteq DOMAIN f.v
                /\ f.stage = "done" =>
                      /\ Written(f, "y") = LumaPositions(f)
                      /\ Written(f, "u") = ChromaPositions(f, f.u_line_size)

\* An odd-sized frame has been converted into planes of exactly the sizes
\* the preconditions ask for.
C14_Witness ==
    \E t \in Threads :
        /\ pc[t] = "fill" /\ fill[t].stage = "done"
        /\ CallerContract(fill[t])
        /\ fill[t].width = 5 /\ fill[t].height = 4
        /\ fill[t].y_line_size = 4
        /\ Cardinality(DOMAIN fill[t].y) = 16
        /\ Cardinality(DOMAIN fill[t].u) = 4

\* C16: for every width and height the frame descriptor holds, the length of
\* the data view that fill_yuv reads (CImage::size) is width * height * 4,
\* the exact product: the 32-bit multiplication neither wraps nor stops the
\* call.
C16_SizeIsExactProduct ==
    \A t \in Threads :
        (session[t].live /\ out[t].kind \in {"data", "panic"}) =>
            /\ out[t].kind = "data"
            /\ out[t].planes.len \o <<0, 0, 0, 0, 0>> =
                   ScaleLimbs(MulWide(ToLimbs(session[t].img.width),
                                      ToLimbs(session[t].img.height)),
                              BytesPerPixel)

\* C17: for the b, g, r of every source pixel, and for the averages of every
\* 2x2 block, the values fill_yuv computes before narrowing are in the 8-bit
\* range, Y in 16..235 and U and V in 16..240, so the narrowing to u8 leaves
\* them as they are; the bytes written are in these ranges.
C17_ValuesStayInRange ==
    \A t \in Threads :
        pc[t] = "fill" =>
            LET img == session[t].img
                f   == fill[t]
            IN  /\ \A x \in 0..(img.width - 1), y \in 0..(img.height - 1) :
                       LET b == Px(img, x, y, 0)
                           g == Px(img, x, y, 1)
                           r == Px(img, x, y, 2)
                       IN  /\ LumaRaw(b, g, r) \in 16..235
                           /\ LumaValue(b, g, r) = LumaRaw(b, g, r)
                /\ \A x \in 0..((img.width \div 2) - 1),
                     y \in 0..((img.height \div 2) - 1) :
                       LET b == BlockAvg(img, x, y, 0)
                           g == BlockAvg(img, x, y, 1)
                           r == BlockAvg(img, x, y, 2)
                       IN  /\ b \in 0..255 /\ g \in 0..255 /\ r \in 0..255
                           /\ ChromaURaw(b, g, r) \in 16..240
                           /\ ChromaVRaw(b, g, r) \in 16..240
                           /\ ChromaU(b, g, r) = ChromaURaw(b, g, r)
                           /\ ChromaV(b, g, r) = ChromaVRaw(b, g, r)
                /\ \A e \in f.log :
                       e[3] \in (IF e[1] = "y" THEN 16..235 ELSE 16..240)

\* A frame of b = 0, g = r = 255 has been converted: U is at the low end of
\* its range.
C17_Witness ==
    \E t \in Threads :
        /\ pc[t] = "fill" /\ fill[t].stage = "done"
        /\ Solid(session[t].img, 0, 255, 255)
        /\ <<"u", 0, 16>> \in fill[t].log

\* A line size of the call is below the row width its pass writes.
ShortStride(f) ==
    \/ f.y_line_size < f.width - (f.width % 2)
    \/ f.u_line_size < f.width \div 2
    \/ f.v_line_size < f.width \div 2

\* C18: fill_yuv validates its line sizes: a call whose y_line_size is
\* below the truncated luma row width, or whose chroma line size is below
\* width / 2, is rejected before any plane byte is written and does not
\* return normally, also when the planes are large enough for every index.
C18_ShortStrideRejected ==
    \A t \in Threads :
        (pc[t] = "fill" /\ ShortStride(fill[t])) =>
            /\ fill[t].log = {}
            /\ fill[t].stage # "done"

\* C19: per native handle the calls are start, then captures, then stop:
\* every capture_sceen and stop_capture call passes the handle of the
\* caller's own session, which is the one its start_capture returned and
\* never changes; no two sessions hold the same handle; no call is made on
\* a handle that was not started or was stopped, and none can follow its
\* stop_capture.
C19_HandleCallOrder ==
    /\ [](/\ \A t \in Threads :
              /\ pc[t] \in {"cap_native", "drop_native"} =>
                    /\ session[t].live
                    /\ hist[t].arg = session[t].handle
                    /\ hist[t].arg \in Handles
                    /\ native[hist[t].arg].st = "live"
              /\ (session[t].live /\ native[session[t].handle].st = "stopped")
                    => pc[t] \in {"drop_unlock", "drop_ret"}
              /\ \A w \in Threads \ {t} :
                    (session[t].live /\ session[w].live) =>
                        session[t].handle # session[w].handle
          /\ \A h \in Handles :
              /\ native[h].st = "free" => Owners(h) = {}
              /\ native[h].stops <= 1)
    /\ [][\A t \in Threads :
            /\ (pc[t] = "new_ret" /\ ~local[t].err /\ pc'[t] = "idle") =>
                  /\ session'[t].live
                  /\ session'[t].handle = local[t].handle
            /\ (session[t].live /\ session'[t].live) =>
                  session'[t].handle = session[t].handle]_vars

\* stop_capture is being called on the handle of a session that captured,
\* while another session is alive on another handle.
C19_Witness ==
    \E t \in Threads, w \in Threads :
        /\ pc[t] = "drop_native"
        /\ session[t].img.data # 0
        /\ session[w].live /\ t # w
        /\ session[w].handle # hist[t].arg

\* C20: under fair scheduling, with every native call returning, every new,
\* capture and drop that was started finishes and the UI lock is free again
\* (unless the process itself is stopped): the lock protocol does not
\* deadlock, and a failed native call does not leave the lock held.
C20_MethodsFinishLockFreed ==
    /\ \A t \in Threads :
          (pc[t] \notin {"idle", "abort"}) ~> (pc[t] \in {"idle", "abort"})
    /\ (lock # 0) ~> (lock = 0)
    /\ [](\A t \in Threads : pc[t] \in ReturnStages => lock # t)

\* start_capture has failed under the lock while another thread waits for
\* the lock.
C20_Witness ==
    \E t \in Threads, w \in Threads :
        /\ pc[t] = "new_unlock" /\ local[t].err /\ lock = t
        /\ pc[w] \in {"new_lock", "cap_lock", "drop_lock"}

====
